---- MODULE Spec2Model ----
(***************************************************************************)
(* Jetty Boot (src/jetty-boot.py): the JettyBootGame session controller,   *)
(* the Boot actor and the Pillars obstacles, as a state machine with one   *)
(* action per tick handler (tick_init, tick_main_menu, tick_game).         *)
(*                                                                         *)
(* Three specifications share the definitions:                             *)
(*   Spec         the main loop, from a constructed JettyBootGame on;      *)
(*   StartupSpec  the constructor reading jb.txt, then name entry and menu;*)
(*   PillarSpec   Pillars.__init__ drawing one pillar texture.             *)
(* Spec takes the pillar textures as drawn without error and their masks   *)
(* as an input of the tick; PillarSpec looks at the drawing itself.        *)
(*                                                                         *)
(* Units.  Horizontal quantities (x, game_total_offset) are whole pixels,  *)
(* as in the source, where they only ever change by whole numbers.  The    *)
(* actor's y and v_vertical are kept in TENTHS of a pixel, because the     *)
(* source changes them by 0.4, 1.5, 2.5, 3.5 per tick: 320 is 3200 here,   *)
(* A_VERTICAL = 0.4 is 4.  All arithmetic is the exact decimal one.        *)
(***************************************************************************)
EXTENDS Integers, Sequences, FiniteSets, TLC

VARIABLES
    self,     \* the JettyBootGame object: one field per attribute, plus
              \* jb_txt, the contents of the file "jb.txt" it reads and writes
    pressed,  \* the keyboard: a climb key (SPACE, UP, RETURN, e) is down
    games,    \* number of games started from the main menu so far
    pc,       \* where the program is: in JettyBootGame.__init__ before the
              \* file is read, in mainloop, in Pillars.__init__, or ended
              \* by an uncaught exception (the exception's name)
    texture   \* the geometry of the pillar texture Pillars.__init__ drew

vars == <<self, pressed, games, pc, texture>>

----------------------------------------------------------------------------
(* Bounds of the model (not program constants).                            *)

\* The player (key presses and releases, pause, quit) and the pixel masks
\* (a pillar hit) can act only in one tick out of InputPeriod; in all
\* other ticks the batch is empty and the keys stay as they were.
InputPeriod == 27
\* tick_game is explored for levels 1..MaxLevel; a higher level is entered
\* (game_handle_new_level runs) but not played.
MaxLevel == 1
\* Lives that can be lost in one game before life-losing ticks are cut off.
MaxLostLives == 3
\* Games that can be started from the main menu.
MaxGames == 1
\* Idle ticks explored in the GAME_OVER phase.
MaxGameOverTicks == 2
\* Ticks explored on the name-entry screen.
MaxInitTicks == 1
\* High scores a jb.txt left by an earlier session can hold when the main
\* loop starts (besides there being no file).
MaxSavedHighScore == 1
\* game_ticks_in_level is only ever compared with 60 (the LEVEL banner);
\* it is counted up to this value and then stays there.
MaxTicksInLevel == 61

----------------------------------------------------------------------------
(* Program constants.                                                      *)

V_HORIZONTAL == 2
V_HORIZONTAL_RESPAWN_MULTIPLIER == 4
A_VERTICAL == 4                   \* 0.4 px/tick^2, in tenths
V_VERTICAL_JUMP == 35             \* 3.5, in tenths
V_VERTICAL_MAX == 100             \* 10, in tenths (defined, never used)
V_VERTICAL_FLYAWAY_SLOW == 15     \* V_HORIZONTAL - 0.5, in tenths
V_VERTICAL_FLYAWAY_NORMAL == 25   \* V_HORIZONTAL + 0.5, in tenths
V_VERTICAL_FLYAWAY_FAST == 35     \* V_HORIZONTAL + 1.5, in tenths
V_VERTICAL_RESPAWN == 30          \* 3, in tenths
MAX_NAME_LENGTH == 16

\* class GamePhase
NORMAL == "NORMAL"
INIT == "INIT"
FLYAWAY == "FLYAWAY"
RESPAWN == "RESPAWN"
GAME_OVER == "GAME_OVER"
GamePhase == {NORMAL, INIT, FLYAWAY, RESPAWN, GAME_OVER}

\* class JettyBootGame.Mode
Mode_INIT == "Mode.INIT"
Mode_MAIN_MENU == "Mode.MAIN_MENU"
Mode_GAME == "Mode.GAME"

Boot_WIDTH == 40
Boot_HEIGHT == 40
Pillars_WIDTH == 24
Pillars_SPACING == 120
Pillars_OPENING_SIZE_MIN == 80    \* OPENING_SIZE_RANGE[0]
Pillars_OPENING_SIZE_MAX == 120   \* OPENING_SIZE_RANGE[1]
Pillars_CAP_HEIGHT == 16

Min(a, b) == IF a <= b THEN a ELSE b
Max(a, b) == IF a >= b THEN a ELSE b

\* Python's int() of the quotient n/d (d > 0): truncation toward zero.
TruncDiv(n, d) == IF n >= 0 THEN n \div d ELSE -((-n) \div d)

----------------------------------------------------------------------------
(* class Boot                                                              *)

Boot_default_x == 48
Boot_default_y == 3200            \* 320, in tenths
Boot_INIT_TARGET_X == 128         \* 160-32
Boot_FALL_CLAMP == 30             \* the literal 3 of Boot.update, in tenths
Boot_FLYAWAY_CEILING == 1600      \* 160, in tenths

\* Boot.__init__
Boot == [x |-> Boot_default_x, y |-> Boot_default_y, v_vertical |-> 0]

\* game_boot before the first game (None in the source)
NoBoot == [x |-> 0, y |-> 0, v_vertical |-> 0]

Boot_update_INIT(b) ==
    [b EXCEPT !.x = Min(b.x + V_HORIZONTAL, Boot_INIT_TARGET_X)]

\* mutant: the fall speed is not clamped
Boot_update_NORMAL_unclamped(b) ==
    [b EXCEPT !.y = b.y + b.v_vertical,
              !.v_vertical = b.v_vertical + A_VERTICAL]

Boot_update_NORMAL(b) ==
    [b EXCEPT !.y = b.y + b.v_vertical,
              !.v_vertical = Min(b.v_vertical + A_VERTICAL, Boot_FALL_CLAMP)]

\* mutant: the vertical move is not clamped at the default
Boot_update_RESPAWN_unclamped(b) ==
    [b EXCEPT !.x = Max(b.x - V_HORIZONTAL, Boot_default_x),
              !.y = b.y - V_VERTICAL_RESPAWN]

Boot_update_RESPAWN(b) ==
    [b EXCEPT !.x = Max(b.x - V_HORIZONTAL, Boot_default_x),
              !.y = Max(b.y - V_VERTICAL_RESPAWN, Boot_default_y)]

Boot_update_FLYAWAY(b) ==
    LET effective_y == b.y - 1600
        x1 == b.x + V_HORIZONTAL
        v == IF effective_y = x1 * 10 THEN V_VERTICAL_FLYAWAY_NORMAL
             ELSE IF effective_y < x1 * 10 THEN V_VERTICAL_FLYAWAY_FAST
             ELSE V_VERTICAL_FLYAWAY_SLOW
    IN [b EXCEPT !.x = x1, !.y = Max(b.y - v, Boot_FLYAWAY_CEILING)]

\* Boot.update(ticks=1, phase)
Boot_update(b, phase) ==
    CASE phase = INIT -> Boot_update_INIT(b)
      [] phase = NORMAL -> Boot_update_NORMAL(b)
      [] phase = RESPAWN -> Boot_update_RESPAWN(b)
      [] phase = FLYAWAY -> Boot_update_FLYAWAY(b)
      [] OTHER -> b

\* Boot.climb_event(phase): the phase argument is ignored
Boot_climb_event(b, phase) == [b EXCEPT !.v_vertical = -V_VERTICAL_JUMP]

----------------------------------------------------------------------------
(* class Pillars.  The opening drawn in __init__ only shapes the image and *)
(* its mask; x and default_x are the physics.                              *)

Pillars_BASE_X == 280             \* 320 * (7 / 8)

Pillars(pillar_index) ==
    LET default_x == Pillars_BASE_X + pillar_index * (Pillars_WIDTH + Pillars_SPACING)
    IN [default_x |-> default_x, x |-> default_x]

\* mutant: the unwinding is not clamped at the start position
Pillars_update_unclamped(p, phase) ==
    IF phase \in {NORMAL, FLYAWAY} THEN [p EXCEPT !.x = p.x - V_HORIZONTAL]
    ELSE IF phase = RESPAWN
    THEN [p EXCEPT !.x = p.x + V_HORIZONTAL * V_HORIZONTAL_RESPAWN_MULTIPLIER]
    ELSE p

Pillars_update(p, phase) ==
    IF phase \in {NORMAL, FLYAWAY} THEN [p EXCEPT !.x = p.x - V_HORIZONTAL]
    ELSE IF phase = RESPAWN
    THEN [p EXCEPT !.x = Min(p.default_x,
                             p.x + V_HORIZONTAL * V_HORIZONTAL_RESPAWN_MULTIPLIER)]
    ELSE p

\* pygame.sprite.collide_mask(pillar, boot) can only be true where the two
\* masks, placed at the sprites' rects (Rect truncates y to a whole pixel),
\* share a pixel.  Which pixels of the boot image are opaque comes from the
\* image assets, so inside this region the outcome is an input of the tick.
Pillars_may_collide(p, b) ==
    LET xoffset == b.x - p.x
        yoffset == (b.y \div 10) - 160
    IN /\ -Boot_WIDTH < xoffset /\ xoffset < Pillars_WIDTH
       /\ -Boot_HEIGHT < yoffset /\ yoffset < 320

\* The texture of a pillar, lines 202-220.  The heights that come from
\* opening_size / 2 are kept in HALF pixels (bottom_top, bottom_full_height,
\* bottom_base, top_bottom, top_full_height, top_base); opening_size and
\* opening_center are whole pixels.

\* the texture before Pillars.__init__ has drawn one
NoTexture ==
    [opening_size |-> 0, opening_center |-> 0,
     bottom_top |-> 0, bottom_full_height |-> 0, bottom_base |-> 0,
     top_bottom |-> 0, top_full_height |-> 0, top_base |-> 0]

\* mutant: the jitter reaches a whole opening size
Pillars_jitter_max_whole(opening_size) == opening_size

\* line 206: int(opening_size * 3 / 4)
Pillars_jitter_max(opening_size) == (opening_size * 3) \div 4

\* lines 205-218 for the two values random.randint returned
Pillars_texture(opening_size, jitter) ==
    LET opening_center == 160 + jitter
        bottom_top == 2 * opening_center + opening_size
        bottom_full_height == 2 * 320 - bottom_top
        top_bottom == 2 * opening_center - opening_size
        top_full_height == top_bottom
    IN [opening_size |-> opening_size, opening_center |-> opening_center,
        bottom_top |-> bottom_top,
        bottom_full_height |-> bottom_full_height,
        bottom_base |-> bottom_full_height - 2 * Pillars_CAP_HEIGHT,
        top_bottom |-> top_bottom,
        top_full_height |-> top_full_height,
        top_base |-> top_full_height - 2 * Pillars_CAP_HEIGHT]

\* GameUtilities.colored_rectangle: pygame.Surface((width, height)) raises
\* pygame.error ("Invalid resolution for Surface") for a negative size
colored_rectangle_raises(width, height) == width < 0 \/ height < 0

\* Pillars.__init__ raises while drawing the texture tx
Pillars_raises(tx) ==
    \/ colored_rectangle_raises(Pillars_WIDTH, Pillars_CAP_HEIGHT)
    \/ colored_rectangle_raises(Pillars_WIDTH, tx.bottom_base)
    \/ colored_rectangle_raises(Pillars_WIDTH, tx.top_base)

----------------------------------------------------------------------------
(* The file jb.txt: a sequence of lines.  Line 1 is the name (a sequence   *)
(* of characters), line 2 the decimal digits of the high score.            *)

NoFile == <<>>

DigitChars == <<"0", "1", "2", "3", "4", "5", "6", "7", "8", "9">>

RECURSIVE Str(_)
\* str(n): the decimal digits, most significant first, after a "-" if n < 0
Str(n) ==
    IF n < 0 THEN <<"-">> \o Str(-n)
    ELSE IF n < 10 THEN <<DigitChars[n + 1]>>
    ELSE Append(Str(n \div 10), DigitChars[(n % 10) + 1])

\* the value of a digit character
DigitValue(c) == CHOOSE d \in 0..9 : DigitChars[d + 1] = c

\* int(line) succeeds: an optional "-" and then one or more digits
\* (anything else makes int() raise ValueError)
IsInt(line) ==
    LET digits == IF line # <<>> /\ Head(line) = "-" THEN Tail(line) ELSE line
    IN /\ digits # <<>>
       /\ \A i \in DOMAIN digits : \E d \in 0..9 : DigitChars[d + 1] = digits[i]

RECURSIVE IntDigits(_)
IntDigits(digits) ==
    IF digits = <<>> THEN 0
    ELSE 10 * IntDigits(SubSeq(digits, 1, Len(digits) - 1))
            + DigitValue(digits[Len(digits)])

\* int(line) for a line with IsInt(line)
int(line) == IF Head(line) = "-" THEN -IntDigits(Tail(line)) ELSE IntDigits(line)

----------------------------------------------------------------------------
(* class JettyBootGame                                                     *)

INITIAL_LIVES == 3
INIT_PHASE_TICKS == 60

\* JettyBootGame.__init__ up to line 285: the attributes' defaults (and
\* the whole of __init__ when there is no jb.txt)
Construct ==
    [running |-> TRUE,
     mode |-> Mode_INIT,
     init_name_text |-> <<>>,
     init_ticks |-> 0,
     game_boot |-> NoBoot,
     game_pillars |-> <<>>,
     game_level |-> 1,
     game_paused |-> FALSE,
     game_ticks_in_level |-> 0,
     game_ticks_in_phase |-> 0,
     game_phase |-> INIT,
     game_lives |-> INITIAL_LIVES,
     game_total_offset |-> 0,
     game_last_score_value |-> 0,
     game_score |-> 0,
     game_high_score |-> 0,
     game_player_name |-> <<"p", "l", "a", "y", "e", "r", "1">>,
     jb_txt |-> NoFile]

\* JettyBootGame.__init__, lines 287-294: jb.txt is read if it exists.
\* jb_str.split("\n")[1] raises IndexError when the file has one line
\* only, and the try statement catches ValueError alone.
JettyBootGame_load(s) ==
    IF s.jb_txt = NoFile THEN [raised |-> "None", self |-> s]
    ELSE IF Len(s.jb_txt) < 2 THEN [raised |-> "IndexError", self |-> s]
    ELSE [raised |-> "None",
          self |-> [s EXCEPT !.game_high_score =
                                 IF IsInt(s.jb_txt[2]) THEN int(s.jb_txt[2])
                                 ELSE s.game_high_score,
                             !.init_name_text = s.jb_txt[1]]]

game_level_pillar_count(s) == 1 + s.game_level

game_generate_game_objects(s) ==
    [s EXCEPT !.game_pillars =
                  [i \in 1..game_level_pillar_count(s) |-> Pillars(i - 1)],
              !.game_boot = Boot]

game_change_phase(s, phase) ==
    [s EXCEPT !.game_phase = phase, !.game_ticks_in_phase = 0]

\* mutant: the lives are tested before the decrement
game_handle_life_test_first(s) ==
    LET s1 == [s EXCEPT !.game_lives = s.game_lives - 1]
    IN IF s.game_lives = 0
       THEN game_change_phase(s1, GAME_OVER)
       ELSE [game_change_phase(s1, RESPAWN) EXCEPT !.game_boot.v_vertical = 0]

game_handle_life(s) ==
    LET s1 == [s EXCEPT !.game_lives = s.game_lives - 1]
    IN IF s1.game_lives = 0
       THEN game_change_phase(s1, GAME_OVER)
       ELSE [game_change_phase(s1, RESPAWN) EXCEPT !.game_boot.v_vertical = 0]

\* mutant: the scroll offset is not reset
game_handle_new_level_keeps_offset(s) ==
    LET s1 == [s EXCEPT !.game_level = s.game_level + 1,
                        !.game_ticks_in_level = 0]
    IN game_change_phase(game_generate_game_objects(s1), INIT)

game_handle_new_level(s) ==
    LET s1 == [s EXCEPT !.game_level = s.game_level + 1,
                        !.game_ticks_in_level = 0,
                        !.game_total_offset = 0]
    IN game_change_phase(game_generate_game_objects(s1), INIT)

game_save_data(s) ==
    [s EXCEPT !.jb_txt = <<s.game_player_name, Str(s.game_high_score)>>]

\* mutant: the new high score is not saved
game_handle_high_score_unsaved(s) ==
    IF s.game_score > s.game_high_score
    THEN [s EXCEPT !.game_high_score = s.game_score]
    ELSE s

game_handle_high_score(s) ==
    IF s.game_score > s.game_high_score
    THEN game_save_data([s EXCEPT !.game_high_score = s.game_score])
    ELSE s

mode_change(s, mode) ==
    LET s1 == [s EXCEPT !.mode = mode]
    IN IF mode = Mode_GAME
       THEN game_generate_game_objects(
                [s1 EXCEPT !.game_level = 1,
                           !.game_ticks_in_level = 0,
                           !.game_ticks_in_phase = 0,
                           !.game_phase = INIT,
                           !.game_lives = INITIAL_LIVES,
                           !.game_total_offset = 0,
                           !.game_last_score_value = 0,
                           !.game_score = 0])
       ELSE s1

----------------------------------------------------------------------------
(* tick_game.  The batch of one tick is a record of flags: the QUIT or     *)
(* ESC event, the pause-toggle key-up, the climb/confirm key-up, the       *)
(* state of the climb keys as polled in this tick (held), and whether some *)
(* pillar's mask overlaps the boot's after the update (hit).               *)

NoEvents == [quit |-> FALSE, pause |-> FALSE, climb_up |-> FALSE,
             held |-> FALSE, hit |-> FALSE]

GameEvents ==
    {[NoEvents EXCEPT !.quit = TRUE, !.held = h] : h \in BOOLEAN} \cup
    {[NoEvents EXCEPT !.pause = p, !.climb_up = c, !.held = h, !.hit = m] :
        p \in BOOLEAN, c \in BOOLEAN, h \in BOOLEAN, m \in BOOLEAN}

\* lines 423-437: the event loop and the polled keys
tick_game_events(s, e) ==
    LET s1 == IF e.pause THEN [s EXCEPT !.game_paused = ~s.game_paused] ELSE s
        s2 == IF e.climb_up
              THEN IF s1.game_phase = NORMAL
                   THEN [s1 EXCEPT !.game_boot =
                                       Boot_climb_event(s1.game_boot, s1.game_phase)]
                   ELSE IF s1.game_phase = GAME_OVER
                   THEN mode_change(s1, Mode_MAIN_MENU)
                   ELSE s1
              ELSE s1
    IN IF e.held
       THEN [s2 EXCEPT !.game_boot = Boot_climb_event(s2.game_boot, s2.game_phase)]
       ELSE s2

\* lines 441-448: scroll offset, boot and pillars move by the phase's rule
tick_game_update(s) ==
    LET offset == IF s.game_phase \in {NORMAL, FLYAWAY}
                  THEN s.game_total_offset + V_HORIZONTAL
                  ELSE IF s.game_phase = RESPAWN
                  THEN Max(s.game_total_offset
                             - V_HORIZONTAL * V_HORIZONTAL_RESPAWN_MULTIPLIER, 0)
                  ELSE s.game_total_offset
    IN [s EXCEPT !.game_total_offset = offset,
                 !.game_boot = Boot_update(s.game_boot, s.game_phase),
                 !.game_pillars = [i \in DOMAIN s.game_pillars |->
                                      Pillars_update(s.game_pillars[i], s.game_phase)]]

\* some pillar's mask region reaches the boot's
pillar_overlap(s) ==
    \E i \in DOMAIN s.game_pillars :
        Pillars_may_collide(s.game_pillars[i], s.game_boot)

\* line 451: 160 >= y or y >= 480 - Boot.HEIGHT/2 (in tenths)
boundary_breach(s) ==
    \/ 1600 >= s.game_boot.y
    \/ s.game_boot.y >= 4800 - (Boot_HEIGHT * 10) \div 2

\* lines 450-451
collision_detected(s, e) == (e.hit /\ pillar_overlap(s)) \/ boundary_breach(s)

\* line 463: 320 * (7 / 8) - (160 - Boot.WIDTH)
first_pillars_offset == Pillars_BASE_X - (160 - Boot_WIDTH)
\* line 464
pillars_offset == Pillars_WIDTH + Pillars_SPACING

\* line 467: min(int(float_score), pillar count), where
\* float_score = (offset - first_pillars_offset) / pillars_offset + 1
level_score(s) ==
    Min(TruncDiv(s.game_total_offset - first_pillars_offset + pillars_offset,
                 pillars_offset),
        game_level_pillar_count(s))

\* mutant: the 0.1 margin is dropped
flyaway_reached_no_margin(s) ==
    10 * (s.game_total_offset - first_pillars_offset + pillars_offset)
        >= pillars_offset * (10 * game_level_pillar_count(s))

\* line 472: float_score >= pillar count + 0.1, both sides times 10*pillars_offset
flyaway_reached(s) ==
    10 * (s.game_total_offset - first_pillars_offset + pillars_offset)
        >= pillars_offset * (10 * game_level_pillar_count(s) + 1)

\* lines 463-471
tick_game_score(s) ==
    LET s1 == IF s.game_last_score_value < level_score(s)
              THEN game_handle_high_score([s EXCEPT !.game_score = s.game_score + 1])
              ELSE s
    IN [s1 EXCEPT !.game_last_score_value = level_score(s)]

\* lines 472-479
tick_game_phase(s) ==
    LET s1 == IF flyaway_reached(s) THEN game_change_phase(s, FLYAWAY) ELSE s
        s2 == IF s1.game_phase = INIT /\ s1.game_ticks_in_phase >= INIT_PHASE_TICKS
              THEN game_change_phase(s1, NORMAL) ELSE s1
    IN IF /\ s2.game_phase = RESPAWN
          /\ s2.game_total_offset = 0
          /\ s2.game_boot.y = Boot_default_y
       THEN game_change_phase(s2, INIT) ELSE s2

\* mutant: the per-phase counter stops one short of the INIT length
tick_game_count_stalled(s) ==
    IF ~s.game_paused
    THEN [s EXCEPT !.game_ticks_in_phase =
                       Min(s.game_ticks_in_phase + 1, INIT_PHASE_TICKS - 1),
                   !.game_ticks_in_level =
                       Min(s.game_ticks_in_level + 1, MaxTicksInLevel)]
    ELSE s

\* lines 503-505
tick_game_count(s) ==
    IF ~s.game_paused
    THEN [s EXCEPT !.game_ticks_in_phase = s.game_ticks_in_phase + 1,
                   !.game_ticks_in_level =
                       Min(s.game_ticks_in_level + 1, MaxTicksInLevel)]
    ELSE s

\* lines 459-505: what runs when the tick was not ended by a collision
\* (each intermediate state is bound as the one element of a set, so that it
\* is evaluated once, as a Python statement evaluates its operand; inside
\* ENABLED, TLC evaluates a LET definition anew at each use)
tick_game_rest(s) ==
    CHOOSE r \in {tick_game_count(s2) :
                    s2 \in {tick_game_phase(s1) :
                              s1 \in {tick_game_score(s)}}} : TRUE

\* mutant: a collision takes a life in every phase but FLYAWAY
tick_game_ungated(s, e) ==
    IF e.quit THEN [s EXCEPT !.running = FALSE]
    ELSE CHOOSE r \in
           { IF s1.game_paused THEN tick_game_rest(s1)
             ELSE CHOOSE r2 \in
                    { IF collision_detected(s2, e) /\ s2.game_phase = FLYAWAY
                      THEN game_handle_new_level(s2)
                      ELSE IF collision_detected(s2, e)
                      THEN game_handle_life(s2)
                      ELSE tick_game_rest(s2)
                      : s2 \in {tick_game_update(s1)} } : TRUE
             : s1 \in {tick_game_events(s, e)} } : TRUE

\* JettyBootGame.tick_game
\* (s1: the state after the event loop; s2: after the updates)
tick_game(s, e) ==
    IF e.quit THEN [s EXCEPT !.running = FALSE]
    ELSE CHOOSE r \in
           { IF s1.game_paused THEN tick_game_rest(s1)
             ELSE CHOOSE r2 \in
                    { IF collision_detected(s2, e) /\ s2.game_phase = NORMAL
                      THEN game_handle_life(s2)
                      ELSE IF collision_detected(s2, e)
                              /\ s2.game_phase = FLYAWAY
                      THEN game_handle_new_level(s2)
                      ELSE tick_game_rest(s2)
                      : s2 \in {tick_game_update(s1)} } : TRUE
             : s1 \in {tick_game_events(s, e)} } : TRUE

----------------------------------------------------------------------------
(* tick_main_menu and tick_init                                            *)

K_ESCAPE == "K_ESCAPE"
K_RETURN == "K_RETURN"
K_BACKSPACE == "K_BACKSPACE"

\* JettyBootGame.tick_main_menu
tick_main_menu(s, e) ==
    IF e.quit THEN [s EXCEPT !.running = FALSE]
    ELSE IF e.climb_up THEN mode_change(s, Mode_GAME)
    ELSE s

RECURSIVE tick_init_loop(_, _)
\* lines 375-386: the event loop; the result's running is FALSE after a quit
tick_init_loop(s, keys) ==
    IF keys = <<>> THEN s
    ELSE LET k == Head(keys)
         IN IF k = K_ESCAPE THEN [s EXCEPT !.running = FALSE]
            ELSE tick_init_loop(
                   IF k = K_RETURN
                   THEN mode_change(
                          game_save_data(
                            [s EXCEPT !.game_player_name = s.init_name_text]),
                          Mode_MAIN_MENU)
                   ELSE IF k = K_BACKSPACE
                   THEN [s EXCEPT !.init_name_text =
                            IF Len(s.init_name_text) = 0 THEN <<>>
                            ELSE SubSeq(s.init_name_text, 1,
                                        Len(s.init_name_text) - 1)]
                   ELSE IF Len(s.init_name_text) < MAX_NAME_LENGTH
                   THEN [s EXCEPT !.init_name_text = Append(s.init_name_text, k)]
                   ELSE s,
                   Tail(keys))

\* JettyBootGame.tick_init
tick_init(s, keys) ==
    LET s1 == tick_init_loop(s, keys)
    IN IF ~s1.running THEN s1
       ELSE [s1 EXCEPT !.init_ticks = s1.init_ticks + 1]

----------------------------------------------------------------------------
(* The environment: which batches a tick can carry.                        *)

\* the tick count the input period is measured on
Clock(s) == IF s.game_phase = FLYAWAY
            THEN s.game_total_offset \div V_HORIZONTAL + 1
            ELSE s.game_ticks_in_phase

InputOpen(s) == s.game_phase = GAME_OVER \/ Clock(s) % InputPeriod = 0

\* the batch that carries nothing new when the climb key's state is pr
Idle(pr) == [NoEvents EXCEPT !.held = pr]

\* the batches tick_game can receive in state s with the climb key's
\* state pr: a key that was down and is up now has sent its key-up
GameBatches(s, pr) ==
    {e \in GameEvents :
        /\ (e # Idle(pr) => InputOpen(s))
        /\ (e.quit => e.held = pr)
        /\ ((pr /\ ~e.held) => e.climb_up)
        /\ (e.hit => \E s1 \in {tick_game_events(s, e)} :
                        /\ ~s1.game_paused
                        /\ \E s2 \in {tick_game_update(s1)} : pillar_overlap(s2))}

\* the tick would take a life
LosesLife(s, e) ==
    \E s1 \in {tick_game_events(s, e)} :
       /\ ~e.quit /\ ~s1.game_paused /\ s1.game_phase = NORMAL
       /\ \E s2 \in {tick_game_update(s1)} : collision_detected(s2, e)

InitBatches ==
    {<<>>, <<K_ESCAPE>>, <<K_RETURN>>, <<K_BACKSPACE>>, <<"a">>}

\* what a jb.txt written by an earlier session holds: the name entered
\* there and the high score reached
SavedFiles ==
    {NoFile} \cup {<<<<"a">>, Str(h)>> : h \in 1..MaxSavedHighScore}

\* what a jb.txt can hold at startup: nothing or a name on line 1, and on
\* line 2 an integer, something else, or nothing; or no line 2 at all
StartupFiles ==
    {NoFile} \cup
    {<<name>> : name \in {<<>>, <<"a">>}} \cup
    {<<name, score>> :
        name \in {<<>>, <<"a">>},
        score \in {<<>>, <<"7">>, <<"1", "2">>, <<"-", "1">>, <<"x">>,
                   <<"1", "x">>, <<"-">>}} \cup
    {<<<<"a">>, <<"7">>, <<>>>>}

MenuEvents ==
    {NoEvents, [NoEvents EXCEPT !.quit = TRUE], [NoEvents EXCEPT !.climb_up = TRUE]}

----------------------------------------------------------------------------
(* The state machine: mainloop dispatches one handler per tick.            *)

\* after JettyBootGame() has returned
Init ==
    /\ \E f \in SavedFiles :
          self = JettyBootGame_load([Construct EXCEPT !.jb_txt = f]).self
    /\ pressed = FALSE
    /\ games = 0
    /\ pc = "mainloop"
    /\ texture = NoTexture

TickInit ==
    /\ pc = "mainloop"
    /\ self.running /\ self.mode = Mode_INIT
    /\ self.init_ticks < MaxInitTicks
    /\ \E keys \in InitBatches :
          /\ self' = tick_init(self, keys)
    /\ UNCHANGED <<pressed, games, pc, texture>>

TickMainMenu ==
    /\ pc = "mainloop"
    /\ self.running /\ self.mode = Mode_MAIN_MENU
    /\ \E e \in MenuEvents :
          /\ e.climb_up => games < MaxGames
          /\ self' = tick_main_menu(self, e)
          /\ games' = IF e.climb_up THEN games + 1 ELSE games
    /\ UNCHANGED <<pressed, pc, texture>>

TickGame ==
    /\ pc = "mainloop"
    /\ self.running /\ self.mode = Mode_GAME
    /\ self.game_level <= MaxLevel
    /\ \E e \in GameBatches(self, pressed) :
          /\ LosesLife(self, e) => INITIAL_LIVES - self.game_lives < MaxLostLives
          /\ (self.game_phase = GAME_OVER /\ ~e.climb_up)
                => self.game_ticks_in_phase < MaxGameOverTicks
          /\ self' = tick_game(self, e)
          /\ pressed' = e.held
    /\ UNCHANGED <<games, pc, texture>>

Next == TickInit \/ TickMainMenu \/ TickGame

Spec == Init /\ [][Next]_vars

\* The fair specification: mainloop runs a tick after a tick for as long
\* as self.running holds, so a game tick that can be processed is processed.
\* The session starts without a jb.txt (the high score plays no part
\* in the phases).
LiveInit == Init /\ self.jb_txt = NoFile

LiveSpec == LiveInit /\ [][Next]_vars /\ WF_vars(TickGame)

----------------------------------------------------------------------------
(* Startup: JettyBootGame.__init__ has assigned the defaults and is about  *)
(* to read jb.txt; then the name entry and the main menu.                  *)

StartupInit ==
    /\ \E f \in StartupFiles : self = [Construct EXCEPT !.jb_txt = f]
    /\ pressed = FALSE
    /\ games = 0
    /\ pc = "JettyBootGame.__init__"
    /\ texture = NoTexture

\* lines 287-294, and main() going on to mainloop
Load ==
    /\ pc = "JettyBootGame.__init__"
    /\ LET r == JettyBootGame_load(self)
       IN /\ self' = r.self
          /\ pc' = IF r.raised = "None" THEN "mainloop" ELSE r.raised
    /\ UNCHANGED <<pressed, games, texture>>

StartupNext == Load \/ TickInit \/ TickMainMenu

StartupSpec == StartupInit /\ [][StartupNext]_vars

----------------------------------------------------------------------------
(* Pillars.__init__ drawing one texture.                                   *)

PillarInit ==
    /\ self = Construct
    /\ pressed = FALSE
    /\ games = 0
    /\ pc = "Pillars.__init__"
    /\ texture = NoTexture

\* lines 205-220: the two random draws and the rectangles
Pillars_init ==
    /\ pc = "Pillars.__init__"
    /\ \E opening_size \in Pillars_OPENING_SIZE_MIN..Pillars_OPENING_SIZE_MAX :
          \E jitter \in -Pillars_jitter_max(opening_size)
                          ..Pillars_jitter_max(opening_size) :
              /\ texture' = Pillars_texture(opening_size, jitter)
              /\ pc' = IF Pillars_raises(texture') THEN "pygame.error"
                       ELSE "drawn"
    /\ UNCHANGED <<self, pressed, games>>

PillarNext == Pillars_init

PillarSpec == PillarInit /\ [][PillarNext]_vars

----------------------------------------------------------------------------
(* Vocabulary of the claims.                                               *)

InGame == self.running /\ self.mode = Mode_GAME

\* a step of tick_game that was not a quit
GameTick == InGame /\ self'.running /\ self' # self

\* the ticks of state s: the batches that are not a quit
Ticks == {e \in GameBatches(self, pressed) : ~e.quit}

\* the batch e without its climb inputs
NoClimb(e) == [e EXCEPT !.climb_up = FALSE, !.held = FALSE]

\* the tick is unpaused and moves the phase `phase` into a collision
Collides(s, e, phase) ==
    LET s1 == tick_game_events(s, e)
    IN /\ ~e.quit /\ ~s1.game_paused /\ s1.game_phase = phase
       /\ collision_detected(tick_game_update(s1), e)

----------------------------------------------------------------------------
(* C1 *)

\* C1: GAME_OVER is terminal: a tick of a game that starts in GAME_OVER
\* and does not switch to the main menu ends in GAME_OVER.
C1_GameOverTerminal ==
    [][(GameTick /\ self.game_phase = GAME_OVER /\ self'.mode = Mode_GAME)
          => self'.game_phase = GAME_OVER]_vars

----------------------------------------------------------------------------
(* C2 *)

\* C2: in every tick whose phase is not NORMAL, the climb inputs (key-up
\* and held key) make no difference to the actor's vertical velocity: the
\* tick leaves the same velocity as the same tick without them.
C2_ClimbOnlyInNormal ==
    InGame =>
        \A e \in Ticks :
            self.game_phase # NORMAL =>
                tick_game(self, e).game_boot.v_vertical
                    = tick_game(self, NoClimb(e)).game_boot.v_vertical

----------------------------------------------------------------------------
(* C3 *)

\* the fields C3 lists
Frozen(s) ==
    <<s.game_phase, s.game_boot, s.game_pillars, s.game_total_offset,
      s.game_score, s.game_lives, s.game_level, s.game_ticks_in_phase,
      s.game_ticks_in_level>>

\* C3: a tick processed while game_paused is true (the flag as it is after
\* the tick's events) changes none of phase, actor x, y and velocity,
\* pillar positions, offset, score, lives, level and the tick counters.
C3_PauseFreezes ==
    [][(GameTick /\ self'.game_paused) => Frozen(self') = Frozen(self)]_vars

----------------------------------------------------------------------------
(* C4 *)

\* C4: a collision or boundary breach in an unpaused NORMAL tick takes
\* exactly one life and ends the tick in GAME_OVER if no life is left, and
\* in RESPAWN with vertical velocity 0 otherwise; a game starts with 3
\* lives, so the phase GAME_OVER is entered with the third life lost.
C4_CollisionTakesOneLife ==
    InGame =>
        \A e \in Ticks :
            Collides(self, e, NORMAL) =>
                LET t == tick_game(self, e)
                IN /\ t.game_lives = self.game_lives - 1
                   /\ t.game_phase =
                          (IF t.game_lives = 0 THEN GAME_OVER ELSE RESPAWN)
                   /\ t.game_phase = RESPAWN => t.game_boot.v_vertical = 0
                   /\ t.game_ticks_in_phase = 0
                   /\ (self.game_lives = 1) = (t.game_phase = GAME_OVER)

\* the third collision of a game has just ended it
C4_Witness ==
    /\ InGame /\ self.game_phase = GAME_OVER /\ self.game_ticks_in_phase = 0
    /\ self.game_lives = 0 /\ self.game_level = 1

----------------------------------------------------------------------------
(* C5 *)

\* C5: the score gained in a level never exceeds the level's obstacle
\* count; stated for the first level, where the score starts at 0.
C5_ScoreWithinObstacles ==
    (InGame /\ self.game_level = 1)
        => self.game_score <= game_level_pillar_count(self)

----------------------------------------------------------------------------
(* C6 *)

\* C6: from one tick of a game to the next the score never decreases and
\* grows by at most 1; it grows by 1 in every tick in which the clamped
\* progress value (level_score) has become larger, and not at all in a
\* tick in which the offset did not change.
C6_ScoreFollowsProgress ==
    [][(GameTick /\ self'.mode = Mode_GAME) =>
          /\ self'.game_score >= self.game_score
          /\ self'.game_score <= self.game_score + 1
          /\ level_score(self') > level_score(self)
                => self'.game_score = self.game_score + 1
          /\ self'.game_total_offset = self.game_total_offset
                => self'.game_score = self.game_score]_vars

----------------------------------------------------------------------------
(* C7 *)

\* a RESPAWN tick moves offset, x and y toward 0 and the spawn point and
\* never past them
RespawnApproach ==
    /\ 0 <= self'.game_total_offset
    /\ self'.game_total_offset <= self.game_total_offset
    /\ Boot_default_x <= self'.game_boot.x
    /\ self'.game_boot.x <= self.game_boot.x
    /\ Min(self.game_boot.y, Boot_default_y) <= self'.game_boot.y
    /\ self'.game_boot.y <= Max(self.game_boot.y, Boot_default_y)
    /\ (self.game_boot.y <= Boot_default_y
           => self.game_boot.y <= self'.game_boot.y)
    /\ (self.game_boot.y >= Boot_default_y
           => self'.game_boot.y <= self.game_boot.y)

\* C7 as stated: RESPAWN ticks approach without overshoot, and the tick
\* that ends RESPAWN (to INIT) leaves offset 0 and the actor exactly at
\* its default x and y.
C7_RespawnExact ==
    [][(GameTick /\ self.game_phase = RESPAWN) =>
          /\ RespawnApproach
          /\ self'.game_phase = INIT =>
                /\ self'.game_total_offset = 0
                /\ self'.game_boot.x = Boot_default_x
                /\ self'.game_boot.y = Boot_default_y]_vars

\* C7 amended: as above, but at the end of RESPAWN only y is at its
\* default; x is somewhere from the default up to where the actor was.
C7_RespawnExactVertical ==
    [][(GameTick /\ self.game_phase = RESPAWN) =>
          /\ RespawnApproach
          /\ self'.game_phase = INIT =>
                /\ self'.game_total_offset = 0
                /\ self'.game_boot.y = Boot_default_y
                /\ self'.game_boot.x \in Boot_default_x..Boot_INIT_TARGET_X]_vars

\* RESPAWN has just ended (its last tick counted itself) with the actor
\* short of its default x
C7_Witness ==
    /\ InGame /\ self.game_phase = INIT /\ self.game_ticks_in_phase = 1
    /\ self.game_lives = 2
    /\ self.game_total_offset = 0
    /\ self.game_boot.y = Boot_default_y
    /\ self.game_boot.x > Boot_default_x + V_HORIZONTAL

----------------------------------------------------------------------------
(* C8 *)

\* every collision of an unpaused FLYAWAY tick starts the next level
C8_Advance ==
    InGame =>
        \A e \in Ticks :
            Collides(self, e, FLYAWAY) =>
                LET t == tick_game(self, e)
                IN /\ t.game_level = self.game_level + 1
                   /\ t.game_lives = self.game_lives
                   /\ t.game_score = self.game_score
                   /\ t.game_total_offset = 0
                   /\ t.game_boot = Boot
                   /\ t.game_pillars =
                          [i \in 1..(1 + t.game_level) |-> Pillars(i - 1)]
                   /\ t.game_phase = INIT
                   /\ t.game_ticks_in_phase = 0

\* the level changes in a game only in an unpaused FLYAWAY tick, by one
C8_OnlyWay ==
    (GameTick /\ self'.game_level # self.game_level) =>
        /\ self.game_phase = FLYAWAY /\ ~self'.game_paused
        /\ self'.game_level = self.game_level + 1
        /\ self'.game_phase = INIT
        /\ self'.game_lives = self.game_lives
        /\ self'.game_score = self.game_score

\* C8: a collision or boundary breach in an unpaused FLYAWAY tick always
\* advances the level by one, costs no life and no score, resets the
\* offset, regenerates actor and pillars and enters INIT with the phase
\* counter at 0; and the level of a game changes in no other way.
C8_FlyawayAdvancesLevel == []C8_Advance /\ [][C8_OnlyWay]_vars

\* level 2 has just been entered
C8_Witness ==
    /\ InGame /\ self.game_level = 2 /\ self.game_phase = INIT
    /\ self.game_ticks_in_phase = 0 /\ self.game_total_offset = 0
    /\ self.game_lives = INITIAL_LIVES /\ self.game_score = 2

----------------------------------------------------------------------------
(* C9 *)

\* C9 as stated: in level 1 the phase is FLYAWAY only from the offset
\* F + 2P + 0.1P = 462.4 on (progress at least 3).
C9_FlyawayAtThreePitches ==
    (InGame /\ self.game_level = 1 /\ self.game_phase = FLYAWAY)
        => 10 * (self.game_total_offset - first_pillars_offset)
               >= 21 * pillars_offset

\* C9 amended: in level 1 the phase is FLYAWAY only from the offset
\* F + P + 0.1P = 318.4 on (progress at least 2.1), and NORMAL only below.
C9_FlyawayAtCountPlusMargin ==
    (InGame /\ self.game_level = 1) =>
        /\ self.game_phase = FLYAWAY
              => 10 * (self.game_total_offset - first_pillars_offset)
                     >= 11 * pillars_offset
        /\ self.game_phase = NORMAL
              => 10 * (self.game_total_offset - first_pillars_offset)
                     < 11 * pillars_offset

\* the NORMAL tick that brought the offset to 320 has switched to FLYAWAY
C9_Witness ==
    /\ InGame /\ self.game_level = 1 /\ self.game_phase = FLYAWAY
    /\ self.game_total_offset = 320 /\ self.game_lives = INITIAL_LIVES
    /\ self.game_boot.x = Boot_INIT_TARGET_X

----------------------------------------------------------------------------
(* C10 *)

\* C10: a game always has 1 + level pillars, and the tick that enters a
\* new level leaves offset 0, last-scored index 0, a fresh actor at the
\* spawn position and fresh pillars at their start positions.
C10_NewLevelState ==
    InGame =>
        /\ Len(self.game_pillars) = 1 + self.game_level
        /\ \A e \in Ticks :
              Collides(self, e, FLYAWAY) =>
                  LET t == tick_game(self, e)
                  IN /\ Len(t.game_pillars) = 1 + t.game_level
                     /\ t.game_total_offset = 0
                     /\ t.game_last_score_value = 0
                     /\ t.game_boot = Boot
                     /\ \A i \in DOMAIN t.game_pillars :
                           t.game_pillars[i] = Pillars(i - 1)

----------------------------------------------------------------------------
(* C11 *)

\* the tick is unpaused and runs the updates in the phase `phase`
Updates(s, e, phase) ==
    LET s1 == tick_game_events(s, e)
    IN ~e.quit /\ ~s1.game_paused /\ s1.game_phase = phase

\* C11: in every state of a game the actor's vertical velocity lies
\* between the jump value -3.5 and V_VERTICAL_MAX = 10, and every unpaused
\* NORMAL tick leaves a velocity of at most V_VERTICAL_MAX.
C11_VelocityClamp ==
    InGame =>
        /\ -V_VERTICAL_JUMP <= self.game_boot.v_vertical
        /\ self.game_boot.v_vertical <= V_VERTICAL_MAX
        /\ \A e \in Ticks :
              Updates(self, e, NORMAL) =>
                  tick_game(self, e).game_boot.v_vertical <= V_VERTICAL_MAX

\* the actor is falling in NORMAL at the speed the update clamps at
C11_Witness ==
    /\ InGame /\ self.game_phase = NORMAL /\ self.game_ticks_in_phase > 1
    /\ self.game_boot.v_vertical = Boot_FALL_CLAMP
    /\ self.game_boot.y > Boot_default_y

----------------------------------------------------------------------------
(* C12 (under PillarSpec) *)

\* Pillars.__init__ has made its draws
Drawn == pc \in {"drawn", "pygame.error"}

\* C12: every pillar the generator produces has an opening size in
\* [80, 120], an opening center within 160 +/- 0.75 * size, and top and
\* bottom segment heights (center - size/2, 320 - center - size/2) >= 0.
C12_OpeningInRange ==
    Drawn =>
        /\ texture.opening_size \in 80..120
        /\ 4 * (texture.opening_center - 160) <= 3 * texture.opening_size
        /\ 4 * (160 - texture.opening_center) <= 3 * texture.opening_size
        /\ texture.top_full_height >= 0
        /\ texture.bottom_full_height >= 0
        /\ texture.top_full_height
              = 2 * texture.opening_center - texture.opening_size
        /\ texture.bottom_full_height
              = 2 * (320 - texture.opening_center) - texture.opening_size

\* the widest opening with the highest center: the top segment is 10 high
C12_Witness ==
    /\ Drawn
    /\ texture.opening_size = Pillars_OPENING_SIZE_MAX
    /\ texture.opening_center = 160 - 90
    /\ texture.top_full_height = 2 * 10

----------------------------------------------------------------------------
(* C13 *)

\* a game tick rewrites jb.txt exactly when it leaves a score above the
\* high score stored before it, and what it writes is that score
C13_Written ==
    GameTick =>
        /\ (self'.jb_txt # self.jb_txt)
              = (self'.game_score > self.game_high_score)
        /\ self'.jb_txt # self.jb_txt =>
              /\ self'.game_high_score = self'.game_score
              /\ self'.jb_txt
                    = <<self.game_player_name, Str(self'.game_score)>>

\* C13: at the end of every game tick the high score is at least the
\* score; the high score never decreases; and jb.txt is rewritten by a
\* game tick exactly when the score has just exceeded the stored high score.
C13_HighScoreKept ==
    /\ [](InGame => self.game_high_score >= self.game_score)
    /\ [][self'.game_high_score >= self.game_high_score]_vars
    /\ [][C13_Written]_vars

\* a session that started with the high score 1 on file has scored a
\* second point and saved it
C13_Witness ==
    /\ InGame /\ self.game_score = 2 /\ self.game_high_score = 2
    /\ self.init_name_text = <<"a">>
    /\ self.jb_txt = <<self.game_player_name, <<"2">>>>

----------------------------------------------------------------------------
(* C14 (under StartupSpec) *)

\* line 2 of the file is absent or is not an integer
MalformedScore(f) == Len(f) < 2 \/ ~IsInt(f[2])

\* C14: reading jb.txt at startup never aborts the program: with no file
\* the name is "" and the high score 0; with a file whose second line is
\* not an integer or is absent, the high score stays 0, the name is line
\* 1, and the program goes on to the main loop.
C14_LoadNeverAborts ==
    [][Load =>
          /\ pc' = "mainloop"
          /\ self.jb_txt = NoFile =>
                /\ self'.init_name_text = <<>>
                /\ self'.game_high_score = 0
          /\ (self.jb_txt # NoFile /\ MalformedScore(self.jb_txt)) =>
                /\ self'.game_high_score = 0
                /\ self'.init_name_text = self.jb_txt[1]]_vars

----------------------------------------------------------------------------
(* C15 *)

\* the phase changes the spec lists
ListedTransitions ==
    {<<INIT, NORMAL>>, <<NORMAL, RESPAWN>>, <<NORMAL, GAME_OVER>>,
     <<NORMAL, FLYAWAY>>, <<FLYAWAY, INIT>>, <<RESPAWN, INIT>>}

\* C15: a tick of a game changes the phase only along the listed
\* transitions, and FLYAWAY to INIT only together with a new level.
C15_PhaseTransitions ==
    [][(GameTick /\ self'.mode = Mode_GAME
          /\ self'.game_phase # self.game_phase) =>
          /\ <<self.game_phase, self'.game_phase>> \in ListedTransitions
          /\ self.game_phase = FLYAWAY
                => self'.game_level = self.game_level + 1]_vars

----------------------------------------------------------------------------
(* C16 *)

RECURSIVE InitUpdates(_, _)
\* n plus the number of unpaused ticks without input that state s needs
\* to leave INIT; each of them runs the actor update with phase INIT
InitUpdates(s, n) ==
    IF s.game_phase # INIT \/ n > 2 * INIT_PHASE_TICKS THEN n
    ELSE InitUpdates(tick_game([s EXCEPT !.game_paused = FALSE], NoEvents),
                     n + 1)

\* the step enters INIT: a game starts, a level starts, or RESPAWN ends
EntersInit ==
    \/ self.mode = Mode_MAIN_MENU /\ self'.mode = Mode_GAME
    \/ /\ GameTick /\ self'.mode = Mode_GAME /\ self'.game_phase = INIT
       /\ self.game_phase # INIT \/ self'.game_level # self.game_level

\* the INIT phase just entered lasts as long as that of a game just started
C16_SameLength ==
    EntersInit =>
        InitUpdates(self', 0) = InitUpdates(mode_change(self', Mode_GAME), 0)

\* a tick that changes the phase leaves the per-phase counter at 0
C16_CounterReset ==
    (GameTick /\ self'.mode = Mode_GAME
        /\ self'.game_phase # self.game_phase)
            => self'.game_ticks_in_phase = 0

\* C16: however INIT is entered (game start, new level, end of RESPAWN),
\* the same number of unpaused ticks run the actor update with phase INIT
\* before the switch to NORMAL; and the per-phase tick counter is 0 after
\* every change of phase.
C16_InitLength == [][C16_SameLength /\ C16_CounterReset]_vars

----------------------------------------------------------------------------
(* C17 *)

\* C17: in a tick whose phase is INIT, RESPAWN or GAME_OVER, and in a
\* paused tick, a pillar overlap or a boundary condition has no effect:
\* lives and level stay, and the tick ends as it does without any
\* collision, whether the masks overlap or not.
C17_CollisionsGated ==
    InGame =>
        \A e \in Ticks :
            LET s1 == tick_game_events(self, e)
                s2 == IF s1.game_paused THEN s1 ELSE tick_game_update(s1)
                t == tick_game(self, e)
            IN (s1.game_paused \/ s1.game_phase \in {INIT, RESPAWN, GAME_OVER})
                  => /\ t.game_lives = self.game_lives
                     /\ t.game_level = self.game_level
                     /\ t = tick_game_rest(s2)
                     /\ tick_game(self, [e EXCEPT !.hit = TRUE]) = t
                     /\ tick_game(self, [e EXCEPT !.hit = FALSE]) = t

\* RESPAWN ticks have run with the actor still inside a pillar's region
C17_Witness ==
    /\ InGame /\ self.game_phase = RESPAWN /\ self.game_ticks_in_phase >= 2
    /\ pillar_overlap(self)
    /\ self.game_lives = 2 /\ self.game_level = 1

----------------------------------------------------------------------------
(* C18 (under PillarSpec) *)

\* C18: drawing a pillar has no error condition: for every opening size
\* and jitter the generator draws, the rectangles it constructs have
\* non-negative heights, among them the top base block (top segment minus
\* the 16-pixel cap) and the bottom base block (bottom segment minus the
\* cap), and Pillars.__init__ returns.
C18_RectanglesDrawn ==
    Drawn =>
        /\ texture.top_base >= 0
        /\ texture.bottom_base >= 0
        /\ texture.top_base = texture.top_full_height - 2 * Pillars_CAP_HEIGHT
        /\ texture.bottom_base
              = texture.bottom_full_height - 2 * Pillars_CAP_HEIGHT
        /\ pc = "drawn"

----------------------------------------------------------------------------
(* C19 (under LiveSpec) *)

\* ticks are no longer processed unpaused: the program has been quit, the
\* game has been left, or the game is paused
Stopped == ~self.running \/ self.mode # Mode_GAME \/ self.game_paused

\* an unpaused game of a level the model plays is in the phase `phase`
Playing(phase) ==
    /\ InGame /\ ~self.game_paused /\ self.game_level <= MaxLevel
    /\ self.game_phase = phase

\* C19: as long as ticks keep being processed unpaused, a game in INIT
\* reaches NORMAL, a game in RESPAWN reaches INIT with the offset at 0 and
\* the actor's y at 320, and a game in FLYAWAY starts the next level.
C19_TransientPhasesEnd ==
    /\ Playing(INIT) ~> (Stopped \/ self.game_phase = NORMAL)
    /\ Playing(RESPAWN)
          ~> (Stopped \/ (/\ self.game_phase = INIT
                          /\ self.game_total_offset = 0
                          /\ self.game_boot.y = Boot_default_y))
    /\ \A l \in 1..MaxLevel :
          (Playing(FLYAWAY) /\ self.game_level = l)
              ~> (Stopped \/ (self.game_level = l + 1 /\ self.game_phase = INIT))

\* a game that went through RESPAWN and INIT again has flown away into
\* level 2
C19_Witness ==
    /\ InGame /\ ~self.game_paused
    /\ self.game_level = 2 /\ self.game_phase = INIT
    /\ self.game_lives = 2 /\ self.game_total_offset = 0

----------------------------------------------------------------------------
(* C20 *)

\* C20: in every state of a game the scroll offset is at least 0 and each
\* pillar of the level stands at 280 + i * (24 + 120) - offset, i counted
\* from 0 (the sequence game_pillars is indexed from 1 here).
C20_PillarsInStep ==
    InGame =>
        /\ 0 <= self.game_total_offset
        /\ DOMAIN self.game_pillars = 1..game_level_pillar_count(self)
        /\ \A i \in DOMAIN self.game_pillars :
              self.game_pillars[i].x
                  = 280 + (i - 1) * (24 + 120) - self.game_total_offset

\* RESPAWN is unwinding and has less than one step of 8 left, so that the
\* next tick clamps the offset at 0 and the pillars at their start
C20_Witness ==
    /\ InGame /\ self.game_phase = RESPAWN /\ self.game_ticks_in_phase >= 1
    /\ self.game_total_offset \in 1..7
    /\ self.game_pillars[1].x < self.game_pillars[1].default_x

----------------------------------------------------------------------------
(* C21 *)

\* the lives of a game are within 0..3, and are 0 exactly in GAME_OVER
C21_LivesInRange ==
    InGame =>
        /\ 0 <= self.game_lives /\ self.game_lives <= INITIAL_LIVES
        /\ (self.game_lives = 0) <=> (self.game_phase = GAME_OVER)

\* a tick of a game does not add a life
C21_NoLifeGained ==
    (GameTick /\ self'.mode = Mode_GAME) => self'.game_lives <= self.game_lives

\* C21: in every state of a game the lives are at least 0 and at most 3,
\* no tick of the game increases them, and they are 0 exactly when the
\* phase is GAME_OVER.
C21_Lives == []C21_LivesInRange /\ [][C21_NoLifeGained]_vars

====
